---- MODULE Spec2Model ----
(***************************************************************************)
(* Model of the OpenRouter image-generation MCP server.                    *)
(*                                                                         *)
(* Two revisions of the server are in the repository: the multi-model one  *)
(* (src/src/index.ts: Gemini chat branch and DALL-E branch) and the        *)
(* Gemini-only one (src/README.md, lines 181-596: chat branch with         *)
(* show_full_response).  saveImages, resolveImageBufferAndExt,             *)
(* parseDataUrl, mimeToExt, extFromUrl and sanitizeFilePart are identical  *)
(* in both.                                                                *)
(*                                                                         *)
(* Text is modelled as a sequence of atoms.  An atom is a character or a   *)
(* fixed multi-character token ("http", "://", "data:", ";base64", "![")   *)
(* that the code's prefix tests and regular expressions never split.       *)
(***************************************************************************)
EXTENDS Integers, Sequences, FiniteSets, TLC

VARIABLES
    server,      \* which revision is running: "multi" or "gemini"
    apiKey,      \* this.apiKey (process.env.OPENROUTER_API_KEY)
    pc,          \* position of the tool call in progress
    args,        \* arguments of the tool call
    data,        \* parsed upstream response body
    imageUrl,    \* handleGenerateImage: let imageUrl
    images,      \* saveImages: parameter images
    i,           \* saveImages: loop index (0-based)
    savedFiles,  \* saveImages: const savedFiles
    fs,          \* files under generated_images/: set of [path, bytes, from]
    dirExists,   \* generated_images/ exists
    clock,       \* current instant, in milliseconds
    log,         \* console.error lines of saveImages
    outcome,     \* what the tool call returned or threw
    upstreamRequests, \* POSTs to OpenRouter issued by the call
    imageFetches,     \* GETs of image URLs issued by the call
    input,       \* arguments of a function applied on its own
    output,      \* its result
    calls        \* overlapping invocations of saveImages, by call id

vars == <<server, apiKey, pc, args, data, imageUrl, images, i, savedFiles, fs,
          dirExists, clock, log, outcome, upstreamRequests, imageFetches,
          input, output, calls>>

\* The state of one tool call, and the rest.
callVars == <<pc, args, data, imageUrl, images, i, savedFiles, log, outcome,
              upstreamRequests, imageFetches>>
envVars  == <<server, apiKey, fs, dirExists, clock>>
funVars  == <<input, output, calls>>

(***************************************************************************)
(* Bounds of the model.                                                    *)
(***************************************************************************)
MaxClock == 1      \* milliseconds that may pass during a call
MaxImages == 3     \* elements of a DALL-E data array
MaxSegments == 3   \* segments a content text is assembled from
MaxBytes == 3      \* bytes of a buffer that is encoded and resolved
MaxParts == 3      \* parts a base name is assembled from
MaxQuads == 15     \* groups of four characters at the end of an inline payload
MaxBlocks == 8     \* blocks of 64 characters at the start of an inline payload

(***************************************************************************)
(* Text helpers.                                                           *)
(***************************************************************************)
\* JavaScript undefined / null, kept distinct from the empty string.
None == <<"undefined">>

\* JavaScript truthiness of a string-or-undefined value.
Truthy(s) == s # None /\ s # <<>>

StartsWith(s, p) == Len(s) >= Len(p) /\ SubSeq(s, 1, Len(p)) = p

Includes(s, a) == \E k \in 1..Len(s) : s[k] = a

Whitespace == {" ", "\n"}

RECURSIVE Concat(_)
Concat(ss) == IF ss = <<>> THEN <<>> ELSE Head(ss) \o Concat(Tail(ss))

\* Least element of a non-empty set of integers.
Min(S) == CHOOSE x \in S : \A y \in S : x <= y
Max(S) == CHOOSE x \in S : \A y \in S : x >= y

\* The atom at position k, or the empty atom past either end.
At(s, k) == IF k \in 1..Len(s) THEN s[k] ELSE ""

\* Last index of the longest run of atoms outside `stop` that starts at r
\* (r - 1 when the run is empty): a greedy [^...]+ of a regular expression.
RunEnd(s, r, stop) ==
    LET ends == {e \in (r - 1)..Len(s) :
                    /\ \A k \in r..e : s[k] \notin stop
                    /\ (e = Len(s) \/ s[e + 1] \in stop)}
    IN  IF r > Len(s) THEN r - 1 ELSE Min(ends)

\* https?:\/\/ matched at position k: the index of the "://" atom, else 0.
SchemeEnd(s, k) ==
    IF At(s, k) = "http" /\ At(s, k + 1) = "://" THEN k + 1
    ELSE IF At(s, k) = "http" /\ At(s, k + 1) = "s" /\ At(s, k + 2) = "://" THEN k + 2
    ELSE 0

(***************************************************************************)
(* ChatImageExtractor: the tiers of handleGenerateImage.                   *)
(***************************************************************************)
\* /!\[.*?\]\((https?:\/\/[^\s\)]+)\)/ matches with "![" at p and "]" at q.
MarkdownAt(s, p, q) ==
    /\ At(s, p) = "!["
    /\ q > p
    /\ \A k \in (p + 1)..(q - 1) : At(s, k) # "\n"
    /\ At(s, q) = "]"
    /\ At(s, q + 1) = "("
    /\ SchemeEnd(s, q + 2) > 0
    /\ LET r == SchemeEnd(s, q + 2) + 1
           e == RunEnd(s, r, Whitespace \cup {")"})
       IN  e >= r /\ At(s, e + 1) = ")"

\* content.match(markdown regex): capture group 1, or None without a match.
\* The leftmost start wins, and for it the shortest lazy .*? .
MarkdownMatch(s) ==
    LET starts == {p \in 1..Len(s) : \E q \in 1..Len(s) : MarkdownAt(s, p, q)}
    IN  IF starts = {} THEN None
        ELSE LET p == Min(starts)
                 q == Min({q \in 1..Len(s) : MarkdownAt(s, p, q)})
                 r == SchemeEnd(s, q + 2) + 1
             IN  SubSeq(s, q + 2, RunEnd(s, r, Whitespace \cup {")"}))

\* content.match(/https?:\/\/[^\s]+/): the whole match, or None.
UrlMatch(s) ==
    LET starts == {k \in 1..Len(s) :
                      /\ SchemeEnd(s, k) > 0
                      /\ RunEnd(s, SchemeEnd(s, k) + 1, Whitespace) > SchemeEnd(s, k)}
    IN  IF starts = {} THEN None
        ELSE LET k == Min(starts)
             IN  SubSeq(s, k, RunEnd(s, SchemeEnd(s, k) + 1, Whitespace))

\* The chain with the bare URL tried before the markdown link.
ExtractFromContentUrlFirst(content) ==
    IF StartsWith(content, <<"http">>) THEN content
    ELSE IF StartsWith(content, <<"data:", "image">>) THEN content
    ELSE IF Includes(content, "http") \/ Includes(content, "![") THEN
        IF UrlMatch(content) # None THEN UrlMatch(content)
        ELSE MarkdownMatch(content)
    ELSE None

\* The chain without the bare-URL tier.
ExtractFromContentNoUrlTier(content) ==
    IF StartsWith(content, <<"http">>) THEN content
    ELSE IF StartsWith(content, <<"data:", "image">>) THEN content
    ELSE IF Includes(content, "http") \/ Includes(content, "![") THEN MarkdownMatch(content)
    ELSE None

\* The chain taking any remaining non-empty text for raw image data.
ExtractFromContentAnyText(content) ==
    IF StartsWith(content, <<"http">>) THEN content
    ELSE IF StartsWith(content, <<"data:", "image">>) THEN content
    ELSE IF MarkdownMatch(content) # None THEN MarkdownMatch(content)
    ELSE IF UrlMatch(content) # None THEN UrlMatch(content)
    ELSE IF content # <<>> THEN content ELSE None

\* The else-if chain over content (tiers 2 to 5).
ExtractFromContent(content) ==
    IF StartsWith(content, <<"http">>) THEN content
    ELSE IF StartsWith(content, <<"data:", "image">>) THEN content
    ELSE IF Includes(content, "http") \/ Includes(content, "![") THEN
        IF MarkdownMatch(content) # None THEN MarkdownMatch(content)
        ELSE UrlMatch(content)
    ELSE None

\* message.images[0].image_url.url when truthy, else null.
ExtractFromImages(imgs) ==
    LET firstImage == imgs[1]
    IN  IF firstImage.has_image_url /\ Truthy(firstImage.url)
        THEN firstImage.url ELSE None

\* message.content || ''
ContentOf(message) == IF Truthy(message.content) THEN message.content ELSE <<>>

\* The extraction with the content tiers as a fallback of the images tier.
ExtractImageUrlFallThrough(message) ==
    IF /\ message.images.present /\ Len(message.images.list) > 0
       /\ ExtractFromImages(message.images.list) # None
    THEN ExtractFromImages(message.images.list)
    ELSE ExtractFromContent(ContentOf(message))

\* The value of imageUrl after the extraction block.
ExtractImageUrl(message) ==
    IF message.images.present /\ Len(message.images.list) > 0
    THEN ExtractFromImages(message.images.list)
    ELSE ExtractFromContent(ContentOf(message))

(***************************************************************************)
(* Characters, base64 and percent decoding (Buffer.from, decodeURIComponent)*)
(***************************************************************************)
\* The base64 alphabet: the character at position k has the value k - 1.
B64Alphabet ==
    <<"A","B","C","D","E","F","G","H","I","J","K","L","M","N","O","P",
      "Q","R","S","T","U","V","W","X","Y","Z","a","b","c","d","e","f",
      "g","h","i","j","k","l","m","n","o","p","q","r","s","t","u","v",
      "w","x","y","z","0","1","2","3","4","5","6","7","8","9","+","/">>

IndexOf(seq, a) == IF \E k \in 1..Len(seq) : seq[k] = a
                   THEN Min({k \in 1..Len(seq) : seq[k] = a}) ELSE 0

\* A block of 64 base64 characters, kept as one atom.
B64Block == "AAAAAAAAAAAAAAAAAAAAAAAAAAAAAAAAAAAAAAAAAAAAAAAAAAAAAAAAAAAAAAAA"

\* The characters of a multi-character atom; a one-character atom is itself.
Chars(a) ==
    CASE a = "data:"   -> <<"d","a","t","a",":">>
      [] a = B64Block  -> [k \in 1..64 |-> "A"]
      [] a = "DATA:"   -> <<"D","A","T","A",":">>
      [] a = "http"    -> <<"h","t","t","p">>
      [] a = "://"     -> <<":","/","/">>
      [] a = "image"   -> <<"i","m","a","g","e">>
      [] a = "IMAGE"   -> <<"I","M","A","G","E">>
      [] a = "/png"    -> <<"/","p","n","g">>
      [] a = "/PNG"    -> <<"/","P","N","G">>
      [] a = "/jpeg"   -> <<"/","j","p","e","g">>
      [] a = "/gif"    -> <<"/","g","i","f">>
      [] a = ";base64" -> <<";","b","a","s","e","6","4">>
      [] a = ";BASE64" -> <<";","B","A","S","E","6","4">>
      [] a = "!["      -> <<"!","[">>
      [] a = "sk-or-"  -> <<"s","k","-","o","r","-">>
      [] OTHER         -> <<a>>

RECURSIVE Explode(_)
Explode(s) == IF s = <<>> THEN <<>> ELSE Chars(Head(s)) \o Explode(Tail(s))

\* unbase64(c): the 6-bit value of a legal character ("-" and "_" are the
\* URL-safe forms of "+" and "/"), -1 for any other character.
B64Val(c) ==
    IF c = "-" THEN 62 ELSE IF c = "_" THEN 63
    ELSE IndexOf(B64Alphabet, c) - 1

\* The sextets Buffer.from(text, 'base64') reads: illegal characters are
\* skipped and the first "=" ends the input.
RECURSIVE Sextets(_)
Sextets(cs) ==
    IF cs = <<>> \/ Head(cs) = "=" THEN <<>>
    ELSE IF B64Val(Head(cs)) >= 0 THEN <<B64Val(Head(cs))>> \o Sextets(Tail(cs))
    ELSE Sextets(Tail(cs))

\* Four sextets give three bytes, three give two, two give one, one gives none.
RECURSIVE SextetsToBytes(_)
SextetsToBytes(v) ==
    IF Len(v) < 2 THEN <<>>
    ELSE LET b1 == v[1] * 4 + v[2] \div 16
         IN  IF Len(v) = 2 THEN <<b1>>
             ELSE LET b2 == (v[2] % 16) * 16 + v[3] \div 4
                  IN  IF Len(v) = 3 THEN <<b1, b2>>
                      ELSE <<b1, b2, (v[3] % 4) * 64 + v[4]>>
                           \o SextetsToBytes(SubSeq(v, 5, Len(v)))

\* A decoder that reads whole groups of four characters only.
Base64DecodeWholeGroups(text) ==
    LET v == Sextets(Explode(text))
    IN  SextetsToBytes(SubSeq(v, 1, 4 * (Len(v) \div 4)))

\* Buffer.from(text, 'base64')
Base64Decode(text) == SextetsToBytes(Sextets(Explode(text)))

\* buffer.toString('base64'): three bytes give four characters, and a last
\* group of one or two bytes is padded with "=".
RECURSIVE Base64Encode(_)
Base64Encode(b) ==
    IF b = <<>> THEN <<>>
    ELSE LET c1 == B64Alphabet[b[1] \div 4 + 1]
         IN  IF Len(b) = 1
             THEN <<c1, B64Alphabet[(b[1] % 4) * 16 + 1], "=", "=">>
             ELSE LET c2 == B64Alphabet[(b[1] % 4) * 16 + b[2] \div 16 + 1]
                  IN  IF Len(b) = 2
                      THEN <<c1, c2, B64Alphabet[(b[2] % 16) * 4 + 1], "=">>
                      ELSE <<c1, c2, B64Alphabet[(b[2] % 16) * 4 + b[3] \div 64 + 1],
                             B64Alphabet[(b[3] % 64) + 1]>>
                           \o Base64Encode(SubSeq(b, 4, Len(b)))

\* The code unit of an ASCII character of the model's alphabet.
Ascii(c) ==
    LET k == IndexOf(B64Alphabet, c)
    IN  IF k \in 1..26 THEN 64 + k
        ELSE IF k \in 27..52 THEN 70 + k
        ELSE IF k \in 53..62 THEN k - 5
        ELSE CASE c = " " -> 32 [] c = "!" -> 33 [] c = "%" -> 37
               [] c = "(" -> 40 [] c = ")" -> 41 [] c = "+" -> 43
               [] c = "," -> 44 [] c = "-" -> 45 [] c = "." -> 46
               [] c = "/" -> 47 [] c = ":" -> 58 [] c = ";" -> 59
               [] c = "=" -> 61 [] c = "?" -> 63 [] c = "[" -> 91
               [] c = "]" -> 93 [] c = "_" -> 95 [] c = "\n" -> 10
               [] OTHER -> 63

HexDigits == <<"0","1","2","3","4","5","6","7","8","9","A","B","C","D","E","F">>

HexVal(c) == IndexOf(HexDigits, c) - 1

\* Buffer.from(decodeURIComponent(data), 'utf8') over ASCII text: a "%" must
\* be followed by two hexadecimal digits, and an escape of 0x80 or more that
\* is not part of a UTF-8 sequence is a URIError.  Thrown is the result when
\* decodeURIComponent throws.
Thrown == <<-1>>

RECURSIVE PercentDecode(_)
PercentDecode(cs) ==
    IF cs = <<>> THEN <<>>
    ELSE IF Head(cs) = "%" THEN
        IF Len(cs) < 3 \/ HexVal(cs[2]) < 0 \/ HexVal(cs[3]) < 0
           \/ HexVal(cs[2]) >= 8
        THEN Thrown
        ELSE LET rest == PercentDecode(SubSeq(cs, 4, Len(cs)))
             IN  IF rest = Thrown THEN Thrown
                 ELSE <<HexVal(cs[2]) * 16 + HexVal(cs[3])>> \o rest
    ELSE LET rest == PercentDecode(Tail(cs))
         IN  IF rest = Thrown THEN Thrown ELSE <<Ascii(Head(cs))>> \o rest

\* String.prototype.toLowerCase on an atom.
Lower(a) ==
    CASE a = "DATA:" -> "data:" [] a = "IMAGE" -> "image" [] a = "/PNG" -> "/png"
      [] a = ";BASE64" -> ";base64" [] a = "PNG" -> "png" [] a = "JPEG" -> "jpeg"
      [] OTHER -> IF IndexOf(B64Alphabet, a) \in 1..26
                  THEN B64Alphabet[IndexOf(B64Alphabet, a) + 26] ELSE a

LowerAll(s) == [k \in 1..Len(s) |-> Lower(s[k])]

\* String.prototype.trim
Trim(s) ==
    LET keep == {k \in 1..Len(s) : s[k] \notin Whitespace}
    IN  IF keep = {} THEN <<>> ELSE SubSeq(s, Min(keep), Max(keep))

(***************************************************************************)
(* ImageReferenceResolver: parseDataUrl, mimeToExt, extFromUrl,            *)
(* resolveImageBufferAndExt.                                               *)
(***************************************************************************)
\* Atoms that begin with ";".
Semicolons == {";", ";base64", ";BASE64"}

\* parseDataUrl: /^data:([^;,]+)?(;base64)?,(.*)$/i .  ok is FALSE when the
\* regular expression does not match ('Invalid data URL') or
\* decodeURIComponent throws; mime is m[1], None when the group is absent.
parseDataUrl(dataUrl) ==
    LET e      == RunEnd(dataUrl, 2, Semicolons \cup {","})
        mime   == IF e >= 2 THEN SubSeq(dataUrl, 2, e) ELSE None
        isB64  == Lower(At(dataUrl, e + 1)) = ";base64"
        comma  == IF isB64 THEN e + 2 ELSE e + 1
        body   == SubSeq(dataUrl, comma + 1, Len(dataUrl))
        m      == /\ Lower(At(dataUrl, 1)) = "data:"
                  /\ At(dataUrl, comma) = ","
                  /\ ~Includes(body, "\n")
        buffer == IF isB64 THEN Base64Decode(body) ELSE PercentDecode(Explode(body))
    IN  IF ~m THEN [ok |-> FALSE, buffer |-> <<>>, mime |-> None, error |-> "Invalid data URL"]
        ELSE IF buffer = Thrown
        THEN [ok |-> FALSE, buffer |-> <<>>, mime |-> None, error |-> "URIError"]
        ELSE [ok |-> TRUE, buffer |-> buffer, mime |-> mime, error |-> ""]

\* The own keys of the map literal in mimeToExt.
MimeMap ==
    {<< <<"image", "/png">>,  "png" >>,  << <<"image", "/jpeg">>, "jpg" >>,
     << <<"image", "/jpg">>,  "jpg" >>,  << <<"image", "/webp">>, "webp" >>,
     << <<"image", "/gif">>,  "gif" >>,  << <<"image", "/bmp">>,  "bmp" >>,
     << <<"image", "/tiff">>, "tiff" >>, << <<"image", "/avif">>, "avif" >>,
     << <<"image", "/svg+xml">>, "svg" >>}

\* What `${x}` renders for the two lower-case keys the map literal inherits
\* from Object.prototype: map['constructor'] is the function Object and
\* map['__proto__'] is Object.prototype.
InheritedMap ==
    {<< <<"constructor">>, "function Object() { [native code] }" >>,
     << <<"__proto__">>,   "[object Object]" >>}

\* map[clean]: own keys first, then the prototype chain, else undefined.
MapLookup(clean) ==
    IF \E kv \in MimeMap \cup InheritedMap : kv[1] = clean
    THEN (CHOOSE kv \in MimeMap \cup InheritedMap : kv[1] = clean)[2]
    ELSE "undefined"

\* m.split(';')[0]
BeforeSemicolon(m) == SubSeq(m, 1, RunEnd(m, 1, Semicolons))

\* mimeToExt(m): an atom, "undefined" for undefined.
mimeToExt(m) ==
    IF ~Truthy(m) THEN "undefined"
    ELSE MapLookup(LowerAll(Trim(BeforeSemicolon(m))))

\* new URL(u).pathname: from the first "/" after the authority up to the
\* query or fragment; "/" when the URL has no path.
Pathname(u) ==
    LET a    == SchemeEnd(u, 1) + 1
        stop == RunEnd(u, a, {"?", "#"})
        host == RunEnd(u, a, {"/", "?", "#"})
    IN  IF host >= stop THEN <<"/">> ELSE SubSeq(u, host + 1, stop)

\* path.extname(p).slice(1): the characters after the last "." of the last
\* path segment; nothing when there is no "." or the segment starts with its
\* only ".".
ExtName(p) ==
    LET slashes == {k \in 1..Len(p) : p[k] = "/"}
        base    == IF slashes = {} THEN p ELSE SubSeq(p, Max(slashes) + 1, Len(p))
        dots    == {k \in 1..Len(base) : base[k] = "."}
    IN  IF dots = {} \/ Max(dots) = 1 THEN <<>>
        ELSE SubSeq(base, Max(dots) + 1, Len(base))

\* fetch(u) and new URL(u) accept u: an http(s) URL with a host and no
\* whitespace.
ValidUrl(u) ==
    /\ SchemeEnd(u, 1) > 0
    /\ RunEnd(u, SchemeEnd(u, 1) + 1, {"/", "?", "#"}) > SchemeEnd(u, 1)
    /\ \A k \in 1..Len(u) : u[k] \notin Whitespace

AllowedExt == {"png", "jpg", "jpeg", "webp", "gif", "bmp", "tiff", "svg", "ico", "avif"}

\* extFromUrl(u): an atom, "undefined" for undefined.
extFromUrl(u) ==
    IF ~ValidUrl(u) THEN "undefined"
    ELSE LET ext == LowerAll(ExtName(Pathname(u)))
         IN  IF Len(ext) # 1 \/ ext[1] \notin AllowedExt THEN "undefined"
             ELSE IF ext[1] = "jpeg" THEN "jpg" ELSE ext[1]

\* a ?? b on atoms ("undefined" is undefined).
NullishAtom(a, b) == IF a = "undefined" THEN b ELSE a

\* a ?? b on strings (None is undefined).
Nullish(a, b) == IF a = None THEN b ELSE a

\* The three-tier choice of resolveImageBufferAndExt.
ResolvedExt(mime, ext) == NullishAtom(NullishAtom(mimeToExt(mime), ext), "png")

\* .replace(/^data:.*;base64,/, ''): the greedy .* runs to the last
\* ";base64," of the first line.
StripDataPrefix(b64) ==
    LET line == RunEnd(b64, 1, {"\n"})
        ends == {j \in 2..line : b64[j] = ";base64" /\ At(b64, j + 1) = ","}
    IN  IF At(b64, 1) = "data:" /\ ends # {}
        THEN SubSeq(b64, Max(ends) + 2, Len(b64)) ELSE b64

NoBytes == [kind |-> "undefined", v |-> <<>>]

\* An ImageInput with every field absent.
EmptyInput ==
    [url |-> None, b64_json |-> None, base64 |-> None, bytes |-> NoBytes,
     mimeType |-> None, contentType |-> None]

Failure(msg) == [ok |-> FALSE, buffer |-> <<>>, ext |-> "", fetched |-> FALSE, error |-> msg]

\* A resolver that fetches every url, data URLs included.
resolveImageBufferAndExtFetchAll(image, net) ==
    IF Truthy(image.url) THEN
        IF ~ValidUrl(image.url) \/ net.throws
        THEN [Failure("fetch failed") EXCEPT !.fetched = TRUE]
        ELSE IF ~net.ok
             THEN [Failure("Failed to fetch") EXCEPT !.fetched = TRUE]
        ELSE [ok |-> TRUE, buffer |-> net.body,
              ext |-> ResolvedExt(net.contentType, extFromUrl(image.url)),
              fetched |-> TRUE, error |-> ""]
    ELSE IF Truthy(image.b64_json) \/ Truthy(image.base64) THEN
        [ok |-> TRUE,
         buffer |-> Base64Decode(StripDataPrefix(Nullish(image.b64_json, image.base64))),
         ext |-> ResolvedExt(Nullish(image.mimeType, image.contentType), "undefined"),
         fetched |-> FALSE, error |-> ""]
    ELSE IF image.bytes.kind \in {"Buffer", "ArrayBuffer", "Uint8Array"}
    THEN [ok |-> TRUE, buffer |-> image.bytes.v,
          ext |-> ResolvedExt(Nullish(image.mimeType, image.contentType), "undefined"),
          fetched |-> FALSE, error |-> ""]
    ELSE Failure("No image data found")

\* resolveImageBufferAndExt(image).  net is what the network does with a GET
\* of image.url: [throws, ok, body, contentType].  fetched tells whether the
\* GET was issued.
resolveImageBufferAndExt(image, net) ==
    IF Truthy(image.url) THEN
        IF StartsWith(image.url, <<"data:">>) THEN
            LET parsed == parseDataUrl(image.url)
            IN  IF ~parsed.ok THEN Failure(parsed.error)
                ELSE [ok |-> TRUE, buffer |-> parsed.buffer,
                      ext |-> ResolvedExt(parsed.mime, "undefined"),
                      fetched |-> FALSE, error |-> ""]
        ELSE IF ~ValidUrl(image.url) \/ net.throws
             THEN [Failure("fetch failed") EXCEPT !.fetched = TRUE]
        ELSE IF ~net.ok
             THEN [Failure("Failed to fetch") EXCEPT !.fetched = TRUE]
        ELSE [ok |-> TRUE, buffer |-> net.body,
              ext |-> ResolvedExt(net.contentType, extFromUrl(image.url)),
              fetched |-> TRUE, error |-> ""]
    ELSE IF Truthy(image.b64_json) \/ Truthy(image.base64) THEN
        [ok |-> TRUE,
         buffer |-> Base64Decode(StripDataPrefix(Nullish(image.b64_json, image.base64))),
         ext |-> ResolvedExt(Nullish(image.mimeType, image.contentType), "undefined"),
         fetched |-> FALSE, error |-> ""]
    ELSE IF image.bytes.kind # "undefined" THEN
        IF image.bytes.kind \in {"Buffer", "ArrayBuffer", "Uint8Array"}
        THEN [ok |-> TRUE, buffer |-> image.bytes.v,
              ext |-> ResolvedExt(Nullish(image.mimeType, image.contentType), "undefined"),
              fetched |-> FALSE, error |-> ""]
        ELSE Failure("No image data found")
    ELSE Failure("No image data found")

(***************************************************************************)
(* ImageBatchPersister helpers: sanitizeFilePart, the timestamp, the path. *)
(***************************************************************************)
SliceLen == 64

\* [a-z0-9_\-] with the i flag.
SafeChar(c) == IndexOf(B64Alphabet, c) \in 1..62 \/ c = "_" \/ c = "-"

\* s.replace(/[^a-z0-9_\-]+/gi, '_'): every maximal run of other characters
\* becomes one "_".
RECURSIVE ReplaceUnsafe(_)
ReplaceUnsafe(cs) ==
    IF cs = <<>> THEN <<>>
    ELSE IF SafeChar(Head(cs)) THEN <<Head(cs)>> \o ReplaceUnsafe(Tail(cs))
    ELSE <<"_">> \o ReplaceUnsafe(SubSeq(cs, RunEnd(cs, 1, {c \in {cs[k] : k \in 1..Len(cs)} : SafeChar(c)}) + 1, Len(cs)))

\* String.prototype.slice(0, n)
Slice(cs, n) == SubSeq(cs, 1, IF Len(cs) < n THEN Len(cs) ELSE n)

\* A sanitizer that only truncates.
sanitizeFilePartSliceOnly(cs) == Slice(Explode(cs), SliceLen)

\* s.replace(/[^a-z0-9_\-]+/gi, '_').slice(0, 64)
sanitizeFilePart(cs) == Slice(ReplaceUnsafe(Explode(cs)), SliceLen)

DefaultBase == <<"g","e","n","e","r","a","t","e","d","_","i","m","a","g","e">>

\* new Date().toISOString() at instant t: only the milliseconds vary.
IsoString(t) == <<"2025-01-01", "T", "00", ":", "00", ":", "00", ".", ToString(t), "Z">>

\* .replace(/[:.]/g, '-')
Timestamp(t) ==
    [k \in 1..Len(IsoString(t)) |->
        IF IsoString(t)[k] \in {":", "."} THEN "-" ELSE IsoString(t)[k]]

OutputDir == <<"cwd", "/", "generated_images">>

\* A file name without the index.
FileNameNoIndex(baseFilename, t, idx, ext) ==
    sanitizeFilePart(IF Truthy(baseFilename) THEN baseFilename ELSE DefaultBase)
        \o <<"_">> \o Timestamp(t) \o <<".", ext>>

\* `${safeBase}_${timestamp}_${i + 1}.${ext}` for loop index i (0-based).
FileName(baseFilename, t, idx, ext) ==
    sanitizeFilePart(IF Truthy(baseFilename) THEN baseFilename ELSE DefaultBase)
        \o <<"_">> \o Timestamp(t) \o <<"_", ToString(idx + 1), ".", ext>>

\* path.join(outputDir, filename)
FilePath(baseFilename, t, idx, ext) ==
    OutputDir \o <<"/">> \o FileName(baseFilename, t, idx, ext)

(***************************************************************************)
(* ResponseNormalizer: the records handleGenerateImage builds.             *)
(***************************************************************************)
NoMessage == [content |-> None, images |-> [present |-> FALSE, list |-> <<>>]]

NoBody == [kind |-> "none", message |-> NoMessage, has_data |-> FALSE, list |-> <<>>]

NoData == [ok |-> FALSE, status |-> 0, body |-> NoBody]

NoImage == [type |-> "none", data |-> None, url |-> None, size |-> 0, format |-> None]

NoResult ==
    [shape |-> "none", success |-> FALSE, image_url |-> None, saved_file |-> None,
     raw_response |-> None, message |-> None, image |-> NoImage, saved_to |-> None,
     images |-> <<>>]

NoOutcome == [kind |-> "none", error |-> "", result |-> NoResult]

Threw(msg) == [kind |-> "error", error |-> msg, result |-> NoResult]

Returned(r) == [kind |-> "result", error |-> "", result |-> r]

\* The ImageInput the chat branch hands to saveImages.
ChatInput(url) ==
    IF StartsWith(url, <<"data:">>) \/ StartsWith(url, <<"http">>)
    THEN [EmptyInput EXCEPT !.url = url]
    ELSE [EmptyInput EXCEPT !.base64 = url]

\* data.data.map(img => ...): the ImageInput of one DALL-E element.
DalleInput(img) ==
    IF Truthy(img.b64_json) THEN [EmptyInput EXCEPT !.b64_json = img.b64_json]
    ELSE IF Truthy(img.url) THEN [EmptyInput EXCEPT !.url = img.url]
    ELSE EmptyInput

\* savedFiles[k] || null for a 0-based k.
SavedAt(files, k) == IF k + 1 <= Len(files) THEN files[k + 1] ELSE None

\* The descriptor of DALL-E element k (0-based).
DalleDescriptor(img, files, k) ==
    [url |-> IF Truthy(img.url) THEN img.url
             ELSE IF Truthy(img.b64_json)
                  THEN <<"data:", "image", "/png", ";base64", ",">> \o img.b64_json
                  ELSE None,
     revised_prompt |-> img.revised_prompt,
     saved_file |-> SavedAt(files, k)]

DalleResult(list, files) ==
    [NoResult EXCEPT !.shape = "dalle", !.success = TRUE,
        !.images = [k \in 1..Len(list) |-> DalleDescriptor(list[k], files, k - 1)]]

\* The record of the multi-model revision's chat branch.
MultiChatResult(message, url, savedFile) ==
    [NoResult EXCEPT !.shape = "chat", !.success = TRUE, !.image_url = url,
        !.saved_file = savedFile, !.raw_response = ContentOf(message)]

\* Math.round(n / d) for n >= 0.
Round(n, d) == (2 * n + d) \div (2 * d)

\* String.prototype.substring(a, b) on characters.
JsSubstring(cs, a, b) ==
    LET clamp(x) == IF x < 0 THEN 0 ELSE IF x > Len(cs) THEN Len(cs) ELSE x
        lo == IF clamp(a) < clamp(b) THEN clamp(a) ELSE clamp(b)
        hi == IF clamp(a) < clamp(b) THEN clamp(b) ELSE clamp(a)
    IN  SubSeq(cs, lo + 1, hi)

\* imageUrl.substring(11, imageUrl.indexOf(';')) || 'unknown'
FormatOf(url) ==
    LET cs == Explode(url)
        f  == JsSubstring(cs, 11, IndexOf(cs, ";") - 1)
    IN  IF f = <<>> THEN <<"unknown">> ELSE f

\* An image record whose size is that of the text after the comma.
GeminiImagePayloadSize(url, show_full_response) ==
    IF ~Truthy(url) THEN NoImage
    ELSE IF StartsWith(url, <<"data:", "image">>) THEN
        [NoImage EXCEPT !.type = "base64",
            !.data = IF show_full_response THEN url ELSE None,
            !.size = Round(Len(Explode(SubSeq(url, IndexOf(url, ",") + 1, Len(url)))), 1024),
            !.format = FormatOf(url)]
    ELSE [NoImage EXCEPT !.type = "url", !.url = url]

\* responseData.image of the Gemini-only revision.
GeminiImage(url, show_full_response) ==
    IF ~Truthy(url) THEN NoImage
    ELSE IF StartsWith(url, <<"data:", "image">>) THEN
        [NoImage EXCEPT !.type = "base64",
            !.data = IF show_full_response THEN url ELSE None,
            !.size = Round(Len(Explode(url)), 1024),
            !.format = FormatOf(url)]
    ELSE [NoImage EXCEPT !.type = "url", !.url = url]

\* The record of the Gemini-only revision.
GeminiResult(message, url, savedFile, show_full_response) ==
    [NoResult EXCEPT !.shape = "gemini", !.success = TRUE,
        !.message = IF Truthy(message.content) THEN message.content
                    ELSE <<"Image generated successfully">>,
        !.image = GeminiImage(url, show_full_response),
        !.saved_to = savedFile]

\* The record of the chat branch of the running revision.
ChatResult(srv, a, message, url, savedFile) ==
    IF srv = "gemini" THEN GeminiResult(message, url, savedFile, a.show_full_response)
    ELSE MultiChatResult(message, url, savedFile)

(***************************************************************************)
(* Inputs of the tool-call machine.                                        *)
(***************************************************************************)
RECURSIVE Repeat(_, _)
Repeat(a, n) == IF n = 0 THEN <<>> ELSE <<a>> \o Repeat(a, n - 1)

\* OPENROUTER_API_KEY: unset, empty, too short, long enough without and with
\* the usual prefix.
ApiKeys ==
    {None, <<>>, <<"sk-or-">> \o Repeat("k", 13),
     Repeat("k", 20), <<"sk-or-">> \o Repeat("k", 14)}

PngDataUrl == <<"data:", "image", "/png", ";base64", ",", "Q", "Q", "=", "=">>
BadDataUrl == <<"data:", "image", "/png">>
HttpUrl    == <<"http", "s", "://", "h", "/", "f", ".", "txt">>
Markdown   == <<"s", "e", "e", " ", "![", "x", "]", "(", "http", "://", "h", "/", "g", ".", "gif", ")">>

Image(url) == [has_image_url |-> TRUE, url |-> url]

Message(content, imgs) == [content |-> content, images |-> [present |-> TRUE, list |-> imgs]]

\* choices[0].message of the chat bodies the upstream may send.
ChatMessages ==
    {[content |-> c, images |-> [present |-> FALSE, list |-> <<>>]] :
        c \in {None, <<"n", "o", " ", "i", "m", "a", "g", "e">>, HttpUrl, PngDataUrl, Markdown}}
    \cup {Message(Markdown, <<>>),
          Message(Markdown, <<Image(HttpUrl)>>),
          Message(<<>>, <<Image(PngDataUrl)>>),
          Message(HttpUrl, <<Image(None)>>),
          Message(<<"o", "k">>, <<Image(BadDataUrl)>>),
          Message(<<"o", "k">>, <<Image(<<"Q", "U", "I", "=">>), Image(HttpUrl)>>)}

DalleElement(url, b64) == [url |-> url, b64_json |-> b64, revised_prompt |-> None]

\* Elements of a DALL-E data array.
DalleElements ==
    {DalleElement(None, <<"Q", "Q", "=", "=">>),
     DalleElement(HttpUrl, None),
     DalleElement(BadDataUrl, None),
     DalleElement(None, None)}

SeqsUpTo(S, n) == UNION {[1..k -> S] : k \in 0..n}

ChatBody(m) == [kind |-> "chat", message |-> m, has_data |-> FALSE, list |-> <<>>]

DalleBody(list) == [kind |-> "dalle", message |-> NoMessage, has_data |-> TRUE, list |-> list]

\* A body without choices[0].message and without data.
MalformedBody == [NoBody EXCEPT !.kind = "malformed"]

\* What the upstream answers to the POST of a branch.
UpstreamResponses(branch) ==
    {[ok |-> FALSE, status |-> st, body |-> NoBody] : st \in {401, 403, 500}}
    \cup {[ok |-> TRUE, status |-> 200, body |-> MalformedBody]}
    \cup IF branch = "chat"
         THEN {[ok |-> TRUE, status |-> 200, body |-> ChatBody(m)] : m \in ChatMessages}
         ELSE {[ok |-> TRUE, status |-> 200, body |-> DalleBody(l)] :
                  l \in SeqsUpTo(DalleElements, MaxImages)}

\* What the network does with the GET of an image URL.
NetOutcomes ==
    {[throws |-> TRUE, ok |-> FALSE, body |-> <<>>, contentType |-> None],
     [throws |-> FALSE, ok |-> FALSE, body |-> <<>>, contentType |-> None]}
    \cup {[throws |-> FALSE, ok |-> TRUE, body |-> <<137, 80>>,
            contentType |-> <<"image", "/jpeg">>]}

FileNames == {None, <<"m", "y", " ", "/", "c", "a", "t">>}

\* The arguments of a tool call, after the defaults of the destructuring.
\* image tells what an analyze_image call names: "path" for image_path, "url"
\* for image_url, "none" for neither.
ArgsOf(srv) ==
    {[name |-> "list_models", model |-> "gemini", save_to_file |-> FALSE,
      filename |-> None, show_full_response |-> FALSE, image |-> "none"],
     [name |-> "delete_image", model |-> "gemini", save_to_file |-> FALSE,
      filename |-> None, show_full_response |-> FALSE, image |-> "none"]}
    \cup {[name |-> "analyze_image", model |-> "other", save_to_file |-> FALSE,
           filename |-> None, show_full_response |-> FALSE, image |-> im] :
            im \in {"none", "path", "url"}}
    \cup {[name |-> "generate_image", model |-> m, save_to_file |-> sv,
           filename |-> f, show_full_response |-> sh, image |-> "none"] :
            m \in IF srv = "gemini" THEN {"gemini"} ELSE {"gemini", "dall-e", "other"},
            sv \in BOOLEAN, f \in FileNames,
            sh \in IF srv = "gemini" THEN BOOLEAN ELSE {FALSE}}

NoArgs == [name |-> "none", model |-> "gemini", save_to_file |-> FALSE,
           filename |-> None, show_full_response |-> FALSE, image |-> "none"]

\* The names the switch of the running revision has a case for.
ToolNames(srv) ==
    IF srv = "gemini" THEN {"generate_image", "list_models"}
    ELSE {"generate_image", "analyze_image", "list_models"}

\* What the upstream answers to the POST of handleAnalyzeImage.
AnalyzeResponses ==
    {[ok |-> FALSE, status |-> 500, body |-> NoBody],
     [ok |-> TRUE, status |-> 200, body |-> MalformedBody]}
    \cup {[ok |-> TRUE, status |-> 200,
            body |-> [NoBody EXCEPT !.kind = "analysis", !.message.content = c]] :
              c \in {None, <<"a", " ", "c", "a", "t">>}}

\* The branch of handleGenerateImage a call takes.
Branch(srv, a) ==
    IF srv = "gemini" \/ a.model = "gemini" THEN "chat"
    ELSE IF a.model = "dall-e" THEN "dalle"
    ELSE "unsupported"

(***************************************************************************)
(* The tool-call machine: one call handled from request to reply.          *)
(***************************************************************************)
\* No call in progress, nothing on disk.
InitCall ==
    /\ args = NoArgs
    /\ data = NoData
    /\ imageUrl = None
    /\ images = <<>>
    /\ i = 0
    /\ savedFiles = <<>>
    /\ fs = {}
    /\ dirExists = FALSE
    /\ clock = 0
    /\ log = <<>>
    /\ outcome = NoOutcome
    /\ upstreamRequests = 0
    /\ imageFetches = 0
    /\ calls = [c \in {1, 2} |-> [pc |-> "idle", baseFilename |-> None, images |-> <<>>,
                                  i |-> 0, savedFiles |-> <<>>]]

Init ==
    /\ server \in {"multi", "gemini"}
    /\ apiKey \in ApiKeys
    /\ pc = "idle"
    /\ InitCall
    /\ input = None
    /\ output = None

LogLine(kind, n, path) == [line |-> kind, index |-> n, path |-> path]

\* The call ends: it returns r or throws.
Finish(o) == outcome' = o /\ pc' = "done"

\* A key check that only tells whether the key is set.
KeyErrorUnsetOnly(key) ==
    IF ~Truthy(key) THEN "OPENROUTER_API_KEY environment variable is not set" ELSE ""

\* The error the handler throws for the key, "" when it throws none.
KeyError(key) ==
    IF ~Truthy(key) THEN "OPENROUTER_API_KEY environment variable is not set"
    ELSE IF Len(Explode(key)) < 20
    THEN "OPENROUTER_API_KEY appears to be invalid (too short)"
    ELSE ""

\* The CallToolRequestSchema handler up to the first await of the tool:
\* the key checks, the switch on the tool name, for generate_image the
\* choice of the branch and the POST to the upstream, and for analyze_image
\* the reading of the image and the POST.
CallTool(a) ==
    /\ pc = "idle"
    /\ args' = a
    /\ UNCHANGED <<data, imageUrl, images, i, savedFiles, imageFetches>>
    /\ UNCHANGED <<envVars, funVars>>
    /\ IF KeyError(apiKey) # "" THEN
           /\ Finish(Threw(KeyError(apiKey)))
           /\ UNCHANGED <<log, upstreamRequests>>
       ELSE
           /\ log' = IF StartsWith(apiKey, <<"sk-or-">>) THEN log
                     ELSE Append(log, LogLine("Warning: key prefix", 0, None))
           /\ IF a.name \notin ToolNames(server) THEN
                  /\ Finish(Threw("Unknown tool"))
                  /\ UNCHANGED upstreamRequests
              ELSE IF a.name = "list_models" THEN
                  /\ Finish(Returned([NoResult EXCEPT !.shape = "models", !.success = TRUE]))
                  /\ UNCHANGED upstreamRequests
              ELSE IF a.name = "analyze_image" THEN
                  \E read \in BOOLEAN :
                      IF a.image = "none" THEN
                          /\ Finish(Threw("Either image_url or image_path must be provided"))
                          /\ UNCHANGED upstreamRequests
                      ELSE IF a.image = "path" /\ ~read THEN
                          /\ Finish(Threw("ENOENT"))
                          /\ UNCHANGED upstreamRequests
                      ELSE
                          /\ upstreamRequests' = upstreamRequests + 1
                          /\ pc' = "analyzing"
                          /\ UNCHANGED outcome
              ELSE IF Branch(server, a) = "unsupported" THEN
                  /\ Finish(Threw("Failed to generate image: Unsupported model"))
                  /\ UNCHANGED upstreamRequests
              ELSE
                  /\ upstreamRequests' = upstreamRequests + 1
                  /\ pc' = "upstream"
                  /\ UNCHANGED outcome

\* The message of the failure a non-2xx upstream response is turned into.
UpstreamError(status) ==
    IF status = 401 THEN "Failed to generate image: Authentication failed (401)"
    ELSE IF status = 403 THEN "Failed to generate image: Access denied (403)"
    ELSE "Failed to generate image: OpenRouter API error"

\* The chat branch from the upstream response to the call of saveImages or
\* the return.
ChatResponds(resp) ==
    IF ~resp.ok THEN
        /\ Finish(Threw(UpstreamError(resp.status)))
        /\ UNCHANGED <<imageUrl, images>>
    ELSE IF resp.body.kind # "chat" THEN
        /\ Finish(Threw("Failed to generate image: TypeError"))
        /\ UNCHANGED <<imageUrl, images>>
    ELSE \E url \in {ExtractImageUrl(resp.body.message)} :
        /\ imageUrl' = url
        /\ IF args.save_to_file /\ Truthy(url)
           THEN /\ images' = <<ChatInput(url)>>
                /\ pc' = "mkdir"
                /\ UNCHANGED outcome
           ELSE /\ Finish(Returned(ChatResult(server, args, resp.body.message, url, None)))
                /\ UNCHANGED images

\* A DALL-E branch that persists whenever asked to, data array or not.
DalleRespondsNoDataGuard(resp) ==
    /\ UNCHANGED imageUrl
    /\ IF ~resp.ok THEN
           /\ Finish(Threw(UpstreamError(resp.status)))
           /\ UNCHANGED images
       ELSE IF args.save_to_file THEN
           /\ images' = [k \in 1..Len(resp.body.list) |-> DalleInput(resp.body.list[k])]
           /\ pc' = "mkdir"
           /\ UNCHANGED outcome
       ELSE IF ~resp.body.has_data THEN
           /\ Finish(Threw("Failed to generate image: TypeError"))
           /\ UNCHANGED images
       ELSE
           /\ Finish(Returned(DalleResult(resp.body.list, <<>>)))
           /\ UNCHANGED images

\* The DALL-E branch from the upstream response to the call of saveImages
\* or the return.
DalleResponds(resp) ==
    /\ UNCHANGED imageUrl
    /\ IF ~resp.ok THEN
           /\ Finish(Threw(UpstreamError(resp.status)))
           /\ UNCHANGED images
       ELSE IF args.save_to_file /\ resp.body.has_data THEN
           /\ images' = [k \in 1..Len(resp.body.list) |-> DalleInput(resp.body.list[k])]
           /\ pc' = "mkdir"
           /\ UNCHANGED outcome
       ELSE IF ~resp.body.has_data THEN
           /\ Finish(Threw("Failed to generate image: TypeError"))
           /\ UNCHANGED images
       ELSE
           /\ Finish(Returned(DalleResult(resp.body.list, <<>>)))
           /\ UNCHANGED images

\* The upstream answers the POST.
UpstreamResponds ==
    /\ pc = "upstream"
    /\ \E resp \in UpstreamResponses(Branch(server, args)) :
        /\ data' = resp
        /\ IF Branch(server, args) = "chat" THEN ChatResponds(resp) ELSE DalleResponds(resp)
    /\ UNCHANGED <<args, i, savedFiles, log, upstreamRequests, imageFetches>>
    /\ UNCHANGED <<envVars, funVars>>

\* handleAnalyzeImage from the upstream response to the return.  The record
\* carries the text of the reply and has no success field.
AnalyzeResponds ==
    /\ pc = "analyzing"
    /\ \E resp \in AnalyzeResponses :
        /\ data' = resp
        /\ IF ~resp.ok
           THEN Finish(Threw("Failed to analyze image: OpenRouter API error"))
           ELSE IF resp.body.kind # "analysis"
           THEN Finish(Threw("Failed to analyze image: TypeError"))
           ELSE Finish(Returned([NoResult EXCEPT !.shape = "analysis",
                                    !.raw_response = resp.body.message.content]))
    /\ UNCHANGED <<args, imageUrl, images, i, savedFiles, log, upstreamRequests,
                   imageFetches>>
    /\ UNCHANGED <<envVars, funVars>>

\* saveImages: fs.mkdir(outputDir, {recursive: true}).  A failure is outside
\* the loop's try and is rethrown by handleGenerateImage.
Mkdir ==
    /\ pc = "mkdir"
    /\ \E ok \in BOOLEAN :
        IF ok THEN /\ dirExists' = TRUE
                   /\ pc' = "loop"
                   /\ UNCHANGED outcome
        ELSE /\ Finish(Threw("Failed to generate image: mkdir"))
             /\ UNCHANGED dirExists
    /\ i' = 0
    /\ savedFiles' = <<>>
    /\ UNCHANGED <<args, data, imageUrl, images, log, upstreamRequests, imageFetches>>
    /\ UNCHANGED <<server, apiKey, fs, clock, funVars>>

\* A write that reports success and leaves no file.
WriteFileLost(files, path, buffer, idx) == files

\* fs.writeFile(path, buffer): the file is created or replaced.
WriteFile(files, path, buffer, idx) ==
    {f \in files : f.path # path} \cup {[path |-> path, bytes |-> buffer, from |-> idx]}

\* A list that records the path of every iteration, saved or not.
PushSavedAlways(files, r, path, written) == Append(files, path)

\* The files saveImages holds after one iteration that resolved to r.
PushSaved(files, r, path, written) ==
    IF r.ok /\ written THEN Append(files, path) ELSE files

\* A loop that gives up at the first failure.
LoopAdvanceAbort(idx, n, saved) == IF saved THEN idx + 1 ELSE n

\* for (let i = 0; i < images.length; i++): the catch swallows the failure
\* and the loop goes on to the next index either way.
LoopAdvance(idx, n, saved) == idx + 1

\* One iteration of the loop of saveImages: resolve, name, write, record.
SaveImage ==
    /\ pc = "loop"
    /\ i < Len(images)
    /\ \E net \in NetOutcomes, written \in BOOLEAN :
       \E r \in {resolveImageBufferAndExt(images[i + 1], net)} :
       \E path \in {FilePath(args.filename, clock, i, r.ext)} :
            /\ imageFetches' = imageFetches + (IF r.fetched THEN 1 ELSE 0)
            /\ fs' = IF r.ok /\ written THEN WriteFile(fs, path, r.buffer, i) ELSE fs
            /\ savedFiles' = PushSaved(savedFiles, r, path, written)
            /\ log' = Append(log, IF r.ok /\ written
                                  THEN LogLine("Saved image to", i + 1, path)
                                  ELSE LogLine("Failed to save image", i + 1, None))
            /\ i' = LoopAdvance(i, Len(images), r.ok /\ written)
    /\ UNCHANGED <<pc, args, data, imageUrl, images, outcome, upstreamRequests>>
    /\ UNCHANGED <<server, apiKey, dirExists, clock, funVars>>

\* saveImages returns and handleGenerateImage builds its record.
SaveImagesReturn ==
    /\ pc = "loop"
    /\ i = Len(images)
    /\ Finish(Returned(
          IF Branch(server, args) = "chat"
          THEN ChatResult(server, args, data.body.message, imageUrl, SavedAt(savedFiles, 0))
          ELSE DalleResult(data.body.list, savedFiles)))
    /\ UNCHANGED <<args, data, imageUrl, images, i, savedFiles, log,
                   upstreamRequests, imageFetches>>
    /\ UNCHANGED <<envVars, funVars>>

\* Time passes before an iteration of saveImages reads the clock (it is read
\* nowhere else).
Tick ==
    /\ pc = "loop"
    /\ i < Len(images)
    /\ clock < MaxClock
    /\ clock' = clock + 1
    /\ UNCHANGED <<callVars, server, apiKey, fs, dirExists, funVars>>

Next ==
    \/ \E a \in ArgsOf(server) : CallTool(a)
    \/ UpstreamResponds
    \/ AnalyzeResponds
    \/ Mkdir
    \/ SaveImage
    \/ SaveImagesReturn
    \/ Tick

Spec == Init /\ [][Next]_vars

(***************************************************************************)
(* The extractor applied on its own to chat messages assembled from        *)
(* segments.                                                               *)
(***************************************************************************)
Segments ==
    {<<"x">>, <<" ">>, <<"\n">>, <<"http">>,
     <<"http", "://", "a">>,
     <<"http", "s", "://", "b">>,
     <<"![", "x", "]", "(">>,
     <<")">>,
     <<"![", "]", "(", "http", "://", "c", ")">>,
     PngDataUrl}

Contents == {None} \cup {Concat(ss) : ss \in SeqsUpTo(Segments, MaxSegments)}

ImageLists ==
    {[present |-> FALSE, list |-> <<>>],
     [present |-> TRUE, list |-> <<>>],
     [present |-> TRUE, list |-> <<Image(<<"http", "://", "d">>)>>],
     [present |-> TRUE, list |-> <<Image(<<>>)>>],
     [present |-> TRUE, list |-> <<[has_image_url |-> FALSE, url |-> None]>>],
     [present |-> TRUE, list |-> <<Image(PngDataUrl), Image(<<"http", "://", "e">>)>>]}

ExtractInit ==
    /\ server = "multi"
    /\ apiKey = None
    /\ pc = "extract"
    /\ InitCall
    /\ input \in {[content |-> c, images |-> im] : c \in Contents, im \in ImageLists}
    /\ output = None

ApplyExtract ==
    /\ pc = "extract"
    /\ output' = ExtractImageUrl(input)
    /\ pc' = "extracted"
    /\ UNCHANGED <<args, data, imageUrl, images, i, savedFiles, log, outcome,
                   upstreamRequests, imageFetches, envVars, input, calls>>

SpecExtract == ExtractInit /\ [][ApplyExtract]_vars

(***************************************************************************)
(* The resolver applied on its own to references of every variant.         *)
(***************************************************************************)
UrlWith(suffix) == <<"http", "s", "://", "h", "/", "f">> \o suffix

RemoteUrls ==
    {UrlWith(sfx) : sfx \in {<<>>, <<".">>, <<".", "txt">>, <<".", "png">>, <<".", "JPEG">>,
                             <<".", "ico">>, <<".", "gif", "?", "q", ".", "png">>,
                             <<".", "tar", ".", "webp">>}}
    \cup {<<"http", "://", "h">>, <<"http", "://", "h", "/", ".", "png">>,
          <<"http", " ", "x">>, <<"DATA:", "image", "/png", ";base64", ",", "Q", "Q">>}

ContentTypes ==
    {None, <<>>, <<"image", "/jpeg">>, <<"IMAGE", "/PNG">>,
     <<" ", "image", "/gif", ";", " ", "charset=binary">>,
     <<"image", "/svg+xml">>, <<"image", "/x-icon">>, <<"text", "/html">>,
     <<"constructor">>, <<"__proto__">>}

ResolveNets ==
    {[throws |-> TRUE, ok |-> FALSE, body |-> <<>>, contentType |-> None],
     [throws |-> FALSE, ok |-> FALSE, body |-> <<>>, contentType |-> None]}
    \cup {[throws |-> FALSE, ok |-> TRUE, body |-> <<137, 80>>, contentType |-> ct] :
            ct \in ContentTypes}

\* The network is not consulted for these references.
NoNet == [throws |-> TRUE, ok |-> FALSE, body |-> <<>>, contentType |-> None]

DataUrls ==
    {<<"data:">> \o m \o b \o <<",">> \o d :
        m \in {<<>>, <<"image", "/png">>, <<"IMAGE", "/PNG">>, <<"image", "/jpeg">>,
               <<"text", "/plain">>, <<"constructor">>},
        b \in {<<>>, <<";base64">>, <<";", "charset=x">>},
        d \in {<<>>, <<"Q", "Q", "=", "=">>, <<"a", "%", "4", "1">>, <<"%", "x">>}}
    \cup {BadDataUrl, <<"data:">>, <<"data:", ",", "a", "\n", "b">>}

Base64Texts ==
    {None, <<>>, <<"Q", "Q", "=", "=">>, <<"Q", "U", "J", "D">>,
     <<"data:", "image", "/jpeg", ";base64", ",", "Q", "Q", "=", "=">>}

\* Byte buffers: the values give every kind of base64 character, "+" and "/"
\* included.
Buffers == SeqsUpTo({0, 65, 251, 255}, MaxBytes)

\* `data:image/png;base64,${b.toString('base64')}`
EncodedPngUrl(b) == <<"data:", "image", "/png", ";base64", ",">> \o Base64Encode(b)

MimeHints == {None, <<"image", "/webp">>, <<"text", "/plain">>}

ByteKinds == {"Buffer", "ArrayBuffer", "Uint8Array", "DataView"}

\* References of the four variants, with the network's answer for the first.
ResolveInputs ==
    {[image |-> [EmptyInput EXCEPT !.url = u], net |-> n] :
        u \in RemoteUrls, n \in ResolveNets}
    \cup {[image |-> [EmptyInput EXCEPT !.url = u], net |-> NoNet] : u \in DataUrls}
    \cup {[image |-> [EmptyInput EXCEPT !.url = EncodedPngUrl(b)], net |-> NoNet] :
            b \in Buffers}
    \cup {[image |-> [EmptyInput EXCEPT !.b64_json = j, !.base64 = b,
                                        !.mimeType = m, !.contentType = c],
           net |-> NoNet] :
            j \in Base64Texts, b \in Base64Texts, m \in MimeHints,
            c \in {None, <<"image", "/gif">>}}
    \cup {[image |-> [EmptyInput EXCEPT !.bytes = [kind |-> k, v |-> <<1, 2>>],
                                        !.mimeType = m, !.contentType = c],
           net |-> NoNet] :
            k \in ByteKinds, m \in MimeHints, c \in {None, <<"image", "/gif">>}}

ResolveInit ==
    /\ server = "multi"
    /\ apiKey = None
    /\ pc = "resolve"
    /\ InitCall
    /\ input \in ResolveInputs
    /\ output = None

ApplyResolve ==
    /\ pc = "resolve"
    /\ output' = resolveImageBufferAndExt(input.image, input.net)
    /\ pc' = "resolved"
    /\ UNCHANGED <<args, data, imageUrl, images, i, savedFiles, log, outcome,
                   upstreamRequests, imageFetches, envVars, input, calls>>

SpecResolve == ResolveInit /\ [][ApplyResolve]_vars

(***************************************************************************)
(* The naming of saveImages applied on its own to base names assembled     *)
(* from parts.                                                             *)
(***************************************************************************)
\* Parts of a base name: a letter and a digit with "_" and "-", a space, a
\* slash, a unicode quotation mark (one code unit outside ASCII), two dots
\* and a letter.
NameParts ==
    {<<"Z", "9", "_", "-">>, <<" ">>, <<"/">>, <<"U+201C">>, <<".", ".">>, <<"a">>}

\* An ending of 67 characters that holds a space, a slash and the quotation
\* mark.
LongEnding == <<"m", "y", " ", "/", "U+201C">> \o Repeat("b", 62)

\* Base names: up to MaxParts parts, with or without the long ending.
BaseNames ==
    {None} \cup {Concat(ss) \o e : ss \in SeqsUpTo(NameParts, MaxParts),
                                      e \in {<<>>, LongEnding}}

\* Extensions resolveImageBufferAndExt returns.
NameExts == {"png", MapLookup(<<"constructor">>)}

NameInit ==
    /\ server = "multi"
    /\ apiKey = None
    /\ pc = "name"
    /\ InitCall
    /\ input \in {[baseFilename |-> b, now |-> t, i |-> k, ext |-> e] :
                    b \in BaseNames, t \in {0, MaxClock},
                    k \in {0, MaxImages - 1}, e \in NameExts}
    /\ output = None

\* Lines 513 to 516 of one iteration of saveImages.
ApplyName ==
    /\ pc = "name"
    /\ output' =
          [safeBase  |-> sanitizeFilePart(IF Truthy(input.baseFilename)
                                          THEN input.baseFilename ELSE DefaultBase),
           timestamp |-> Timestamp(input.now),
           filename  |-> FileName(input.baseFilename, input.now, input.i, input.ext),
           filepath  |-> FilePath(input.baseFilename, input.now, input.i, input.ext)]
    /\ pc' = "named"
    /\ UNCHANGED <<args, data, imageUrl, images, i, savedFiles, log, outcome,
                   upstreamRequests, imageFetches, envVars, input, calls>>

SpecName == NameInit /\ [][ApplyName]_vars

(***************************************************************************)
(* Two invocations of saveImages that overlap: the event loop runs one     *)
(* iteration of either at a time, and both share the directory and the     *)
(* clock.                                                                  *)
(***************************************************************************)
CallIds == {1, 2}

\* The references an invocation is given: payloads that resolve and a data
\* URL that does not.
CallImages ==
    {<<[EmptyInput EXCEPT !.b64_json = <<"Q", "Q", "=", "=">>]>>,
     <<[EmptyInput EXCEPT !.url = BadDataUrl],
       [EmptyInput EXCEPT !.b64_json = <<"Q", "U", "I", "=">>]>>}

\* filename || 'generated_image' of the two call sites.
CallBaseNames == {DefaultBase, <<"c", "a", "t">>}

CallsInit ==
    /\ server = "multi"
    /\ apiKey = None
    /\ pc = "calls"
    /\ InitCall
    /\ input = None
    /\ output = None

\* handleGenerateImage calls saveImages(images, baseFilename): savedFiles is
\* empty and the directory is made.
StartSave(c) ==
    /\ pc = "calls"
    /\ calls[c].pc = "idle"
    /\ \E imgs \in CallImages, b \in CallBaseNames :
        calls' = [calls EXCEPT ![c] = [pc |-> "loop", baseFilename |-> b,
                                       images |-> imgs, i |-> 0, savedFiles |-> <<>>]]
    /\ dirExists' = TRUE
    /\ UNCHANGED <<callVars, server, apiKey, fs, clock, input, output>>

\* One iteration of the loop of invocation c.  The file records which
\* invocation and which index wrote it.
SaveStep(c) ==
    /\ pc = "calls"
    /\ calls[c].pc = "loop"
    /\ calls[c].i < Len(calls[c].images)
    /\ \E written \in BOOLEAN :
       \E r \in {resolveImageBufferAndExt(calls[c].images[calls[c].i + 1], NoNet)} :
       \E path \in {FilePath(calls[c].baseFilename, clock, calls[c].i, r.ext)} :
            /\ fs' = IF r.ok /\ written
                     THEN WriteFile(fs, path, r.buffer, <<c, calls[c].i>>) ELSE fs
            /\ calls' = [calls EXCEPT
                  ![c].savedFiles = PushSaved(calls[c].savedFiles, r, path, written),
                  ![c].i = LoopAdvance(calls[c].i, Len(calls[c].images), r.ok /\ written)]
    /\ UNCHANGED <<callVars, server, apiKey, dirExists, clock, input, output>>

\* saveImages of invocation c returns savedFiles.
SaveReturn(c) ==
    /\ pc = "calls"
    /\ calls[c].pc = "loop"
    /\ calls[c].i = Len(calls[c].images)
    /\ calls' = [calls EXCEPT ![c].pc = "done"]
    /\ UNCHANGED <<callVars, envVars, input, output>>

\* Time passes while an invocation is in its loop.
CallsTick ==
    /\ pc = "calls"
    /\ \E c \in CallIds : calls[c].pc = "loop"
    /\ clock < MaxClock
    /\ clock' = clock + 1
    /\ UNCHANGED <<callVars, server, apiKey, fs, dirExists, funVars>>

CallsNext ==
    \/ \E c \in CallIds : StartSave(c)
    \/ \E c \in CallIds : SaveStep(c)
    \/ \E c \in CallIds : SaveReturn(c)
    \/ CallsTick

SpecCalls == CallsInit /\ [][CallsNext]_vars

(***************************************************************************)
(* The image record of the Gemini-only revision built on its own from      *)
(* image references of many lengths.                                       *)
(***************************************************************************)
\* Inline images: a data-URL prefix and a base64 payload of 64n + 4k
\* characters.
InlineUrl(mime, n, k) ==
    <<"data:", "image", mime, ";base64", ",">> \o Repeat(B64Block, n) \o Repeat("A", 4 * k)

SizeInputs ==
    {[url |-> InlineUrl(m, n, k), show_full_response |-> sh] :
        m \in {"/png", "/jpeg"}, n \in 0..MaxBlocks, k \in 0..MaxQuads, sh \in BOOLEAN}
    \cup {[url |-> u, show_full_response |-> sh] : u \in {None, HttpUrl}, sh \in BOOLEAN}

SizeInit ==
    /\ server = "gemini"
    /\ apiKey = None
    /\ pc = "size"
    /\ InitCall
    /\ input \in SizeInputs
    /\ output = None

ApplySize ==
    /\ pc = "size"
    /\ output' = GeminiImage(input.url, input.show_full_response)
    /\ pc' = "sized"
    /\ UNCHANGED <<args, data, imageUrl, images, i, savedFiles, log, outcome,
                   upstreamRequests, imageFetches, envVars, input, calls>>

SpecSize == SizeInit /\ [][ApplySize]_vars

(***************************************************************************)
(* Properties.                                                             *)
(***************************************************************************)
\* The lines saveImages logged (the key warning has index 0).
SaveLog == SelectSeq(log, LAMBDA l : l.index > 0)

\* The path of the file written from the reference at 0-based index j, None
\* when none was written.
FileFrom(j) ==
    IF \E f \in fs : f.from = j THEN (CHOOSE f \in fs : f.from = j).path ELSE None

\* saveImages is about to return.
AtReturn == pc = "loop" /\ i = Len(images)

\* C1: saveImages returns one entry per input reference, in input order:
\* entry k is the path written for reference k, or none when resolving or
\* writing reference k failed; the result is as long as the input.
C1_OneSlotPerReference ==
    AtReturn =>
        /\ Len(savedFiles) = Len(images)
        /\ \A k \in 1..Len(images) : savedFiles[k] = FileFrom(k - 1)

\* C2: with save_to_file, the DALL-E result holds one descriptor per element
\* of data, in order, and descriptor k carries the path of the file written
\* from element k, null exactly when no file was written from it.
C2_DescriptorOfElement ==
    (/\ pc = "done"
     /\ outcome.kind = "result"
     /\ outcome.result.shape = "dalle"
     /\ args.save_to_file) =>
        /\ Len(outcome.result.images) = Len(data.body.list)
        /\ \A k \in 1..Len(data.body.list) :
              outcome.result.images[k].saved_file = FileFrom(k - 1)

\* C3: a failure for one reference never aborts the batch and never makes
\* saveImages fail: the references are attempted once each, in index order,
\* the loop always runs to the last one and returns, and every reference
\* logged as saved has its file, whatever failed before it.
C3_FailureNeverAborts ==
    /\ pc = "loop" => Len(SaveLog) = i /\ i <= Len(images)
    /\ (pc = "done" /\ dirExists) =>
          outcome.kind = "result" /\ Len(SaveLog) = Len(images)
    /\ \A k \in 1..Len(SaveLog) :
          /\ SaveLog[k].index = k
          /\ SaveLog[k].line = "Saved image to" =>
                \E f \in fs : f.from = k - 1 /\ f.path = SaveLog[k].path

\* A batch in which a reference failed and a later one was saved.
C3_Witness ==
    /\ pc = "done"
    /\ outcome.kind = "result"
    /\ \E k \in 1..Len(SaveLog) : \E m \in (k + 1)..Len(SaveLog) :
          /\ SaveLog[k].line = "Failed to save image"
          /\ SaveLog[m].line = "Saved image to"
          /\ \E f \in fs : f.from = m - 1

\* The message has a non-empty images array.
HasImages(message) == message.images.present /\ Len(message.images.list) > 0

\* images[0].image_url.url is present and non-empty.
HasStructuredUrl(message) ==
    /\ HasImages(message)
    /\ message.images.list[1].has_image_url
    /\ Truthy(message.images.list[1].url)

\* s[a..e] is http:// or https:// followed by one or more atoms outside stop.
IsUrlAt(s, a, e, stop) ==
    /\ SchemeEnd(s, a) > 0
    /\ e > SchemeEnd(s, a)
    /\ e <= Len(s)
    /\ \A k \in (SchemeEnd(s, a) + 1)..e : s[k] \notin stop

\* The markdown image links ![alt](url) of s on one line, as <<p, q, e>>:
\* "![" at p, "](" at q, the URL from q + 2 to e, ")" at e + 1.
MarkdownLinks(s) ==
    {l \in (1..Len(s)) \X (1..Len(s)) \X (1..Len(s)) :
        /\ s[l[1]] = "!["
        /\ l[1] < l[2]
        /\ \A k \in (l[1] + 1)..(l[2] - 1) : s[k] # "\n"
        /\ s[l[2]] = "]"
        /\ At(s, l[2] + 1) = "("
        /\ IsUrlAt(s, l[2] + 2, l[3], Whitespace \cup {")"})
        /\ At(s, l[3] + 1) = ")"}

\* The bare URL tokens of s, as <<a, e>>: a URL that runs to the next
\* whitespace or the end of the text.
BareUrls(s) ==
    {t \in (1..Len(s)) \X (1..Len(s)) :
        /\ IsUrlAt(s, t[1], t[2], Whitespace)
        /\ (t[2] = Len(s) \/ s[t[2] + 1] \in Whitespace)}

\* No content tier applies to c.
NoContentTier(c) ==
    /\ ~StartsWith(c, <<"http">>)
    /\ ~StartsWith(c, <<"data:", "image">>)
    /\ MarkdownLinks(c) = {}
    /\ BareUrls(c) = {}

\* C4: with a non-empty images array the content is never scanned: the
\* reference is images[0].image_url.url (none when that is missing),
\* whatever the content holds.
C4_StructuredImageIsAuthoritative ==
    (pc = "extracted" /\ HasImages(input)) =>
        output = IF HasStructuredUrl(input) THEN input.images.list[1].url ELSE None

\* The structured entry was chosen over a markdown link pointing elsewhere.
C4_Witness ==
    /\ pc = "extracted"
    /\ HasStructuredUrl(input)
    /\ MarkdownLinks(ContentOf(input)) # {}
    /\ output = input.images.list[1].url
    /\ output # MarkdownMatch(ContentOf(input))

\* C5 as stated: the extractor returns none only if no tier matches, the
\* content tiers being tried whenever images[0].image_url.url is absent or
\* empty.
C5_NoneOnlyIfNoTierMatches ==
    (pc = "extracted" /\ output = None) =>
        ~HasStructuredUrl(input) /\ NoContentTier(ContentOf(input))

\* C5 as amended: without a non-empty images array the content tiers are
\* tried and the extractor returns none exactly when none of them matches;
\* with a non-empty images array whose first entry has no URL it returns
\* none without trying the content tiers.
C5_TiersInOrder ==
    pc = "extracted" =>
        /\ ~HasImages(input) => (output = None <=> NoContentTier(ContentOf(input)))
        /\ (HasImages(input) /\ ~HasStructuredUrl(input)) => output = None

\* Without images the earlier content tiers yielded nothing and the bare
\* URL tier found the reference.
C5_Witness ==
    /\ pc = "extracted"
    /\ ~HasImages(input)
    /\ ~StartsWith(ContentOf(input), <<"http">>)
    /\ MarkdownLinks(ContentOf(input)) = {}
    /\ BareUrls(ContentOf(input)) # {}
    /\ output # None

\* C6: without structured images the content tiers are ordered: content
\* beginning with http is the URL as a whole; else content beginning with
\* data:image is taken whole; else the URL inside the parentheses of the
\* first markdown image link, even after an earlier bare URL; else the first
\* bare http(s):// token.
C6_ContentTierOrder ==
    (pc = "extracted" /\ ~HasImages(input)) =>
        LET c == ContentOf(input) IN
        IF StartsWith(c, <<"http">>) \/ StartsWith(c, <<"data:", "image">>)
        THEN output = c
        ELSE IF MarkdownLinks(c) # {}
        THEN \E l \in MarkdownLinks(c) :
                /\ output = SubSeq(c, l[2] + 2, l[3])
                /\ \A o \in MarkdownLinks(c) : l[2] <= o[2]
        ELSE IF BareUrls(c) # {}
        THEN \E t \in BareUrls(c) :
                /\ output = SubSeq(c, t[1], t[2])
                /\ \A o \in BareUrls(c) : t[1] <= o[1]
        ELSE TRUE

\* A markdown link was chosen although a bare URL occurs before it.
C6_Witness ==
    /\ pc = "extracted"
    /\ ~HasImages(input)
    /\ ~StartsWith(ContentOf(input), <<"http">>)
    /\ \E l \in MarkdownLinks(ContentOf(input)) : \E t \in BareUrls(ContentOf(input)) :
          /\ t[1] < l[1]
          /\ output = SubSeq(ContentOf(input), l[2] + 2, l[3])

\* The upstream answered a chat request with plain text: no images array and
\* a content no tier applies to.
PlainTextReply ==
    /\ args.name = "generate_image"
    /\ Branch(server, args) = "chat"
    /\ data.ok
    /\ data.body.kind = "chat"
    /\ ~HasImages(data.body.message)
    /\ NoContentTier(ContentOf(data.body.message))

\* C7: a chat reply of plain text without URL is a success: the call returns
\* success with the raw text and no image descriptor, and nothing is
\* fetched or written even when save_to_file is set.
C7_TextReplyIsSuccess ==
    (pc = "done" /\ PlainTextReply) =>
        /\ outcome.kind = "result"
        /\ outcome.result.success
        /\ imageUrl = None
        /\ outcome.result.image_url = None
        /\ outcome.result.image = NoImage
        /\ outcome.result.saved_file = None
        /\ outcome.result.saved_to = None
        /\ server = "multi" => outcome.result.raw_response = ContentOf(data.body.message)
        /\ (server = "gemini" /\ Truthy(data.body.message.content)) =>
              outcome.result.message = data.body.message.content
        /\ fs = {}
        /\ ~dirExists
        /\ imageFetches = 0

\* A text reply to a call that asked for the file.
C7_Witness ==
    /\ pc = "done"
    /\ PlainTextReply
    /\ args.save_to_file
    /\ Truthy(data.body.message.content)
    /\ outcome.result.success

\* sub occurs in s.
Contains(s, sub) ==
    \E k \in 1..(Len(s) - Len(sub) + 1) : SubSeq(s, k, k + Len(sub) - 1) = sub

\* The payload of a data URL: what follows its first comma.
PayloadOf(url) == SubSeq(url, IndexOf(url, ",") + 1, Len(url))

\* The text fields of a returned record.
TextFields(r) ==
    {r.image_url, r.saved_file, r.raw_response, r.message, r.saved_to,
     r.image.data, r.image.url, r.image.format}

\* C8: when the image reference of a chat result is a data URL and
\* show_full_response was not requested, no field of the returned record
\* contains the base64 payload, whichever tier found the data URL.
C8_PayloadOnlyOnRequest ==
    (/\ pc = "done"
     /\ server = "gemini"
     /\ outcome.kind = "result"
     /\ outcome.result.shape = "gemini"
     /\ StartsWith(imageUrl, <<"data:">>)
     /\ IndexOf(imageUrl, ",") > 0
     /\ PayloadOf(imageUrl) # <<>>
     /\ ~args.show_full_response) =>
        \A f \in TextFields(outcome.result) : ~Contains(f, PayloadOf(imageUrl))

\* The content type of a reference: the Content-Type of the response for a
\* fetched URL, the mime segment of a data URL, else the mime hint.
TypeOfReference(in) ==
    IF Truthy(in.image.url) THEN
        IF StartsWith(in.image.url, <<"data:">>)
        THEN SubSeq(in.image.url, 2, RunEnd(in.image.url, 2, Semicolons \cup {","}))
        ELSE in.net.contentType
    ELSE Nullish(in.image.mimeType, in.image.contentType)

\* The documented mime-to-extension mapping: the extension of a listed mime
\* type, "undefined" for any other.
ListedExt(type) ==
    LET clean == IF Truthy(type) THEN LowerAll(Trim(BeforeSemicolon(type))) ELSE <<>>
    IN  IF \E kv \in MimeMap : kv[1] = clean
        THEN (CHOOSE kv \in MimeMap : kv[1] = clean)[2] ELSE "undefined"

\* The reference is a URL that is fetched.
IsFetched(in) == Truthy(in.image.url) /\ ~StartsWith(in.image.url, <<"data:">>)

\* C9: the extension is the mapping of the content type when that is a
\* listed mime type; otherwise the allow-listed suffix of the fetched URL's
\* path; otherwise png.
C9_ThreeTierExtension ==
    (pc = "resolved" /\ output.ok) =>
        output.ext =
            IF ListedExt(TypeOfReference(input)) # "undefined"
            THEN ListedExt(TypeOfReference(input))
            ELSE IF IsFetched(input) /\ extFromUrl(input.image.url) # "undefined"
            THEN extFromUrl(input.image.url)
            ELSE "png"

ExtAllowList == {"png", "jpg", "webp", "gif", "bmp", "tiff", "svg", "ico", "avif"}

\* C10: every reference that resolves has an extension of the allow-list.
C10_ExtensionInAllowList ==
    (pc = "resolved" /\ output.ok) => output.ext \in ExtAllowList

\* The base64 text a base64-payload reference carries (b64_json ?? base64).
PayloadText(in) == Nullish(in.image.b64_json, in.image.base64)

JpegPrefix == <<"data:", "image", "/jpeg", ";base64", ",">>

\* The reference is a base64 payload that still carries the JPEG data-URL
\* prefix and has no mimeType or contentType hint.
PrefixedPayload(in) ==
    /\ ~Truthy(in.image.url)
    /\ Truthy(in.image.b64_json) \/ Truthy(in.image.base64)
    /\ StartsWith(PayloadText(in), JpegPrefix)
    /\ in.image.mimeType = None
    /\ in.image.contentType = None

\* C11: a base64 payload with a leading data:image/jpeg;base64, prefix and no
\* other hint resolves to the bytes of the text after the prefix and to the
\* extension jpg, the mime segment of the prefix being the type.
C11_PrefixMimeIsTypeHint ==
    (pc = "resolved" /\ PrefixedPayload(input)) =>
        /\ output.ok
        /\ output.buffer =
              Base64Decode(SubSeq(PayloadText(input), Len(JpegPrefix) + 1,
                                  Len(PayloadText(input))))
        /\ output.ext = "jpg"

\* C12: for every byte buffer b, the reference whose url is
\* data:image/png;base64, followed by the base64 encoding of b resolves to
\* bytes identical to b and to the extension png.
C12_DataUrlRoundTrip ==
    \A b \in Buffers :
        (pc = "resolved" /\ input.image.url = EncodedPngUrl(b)) =>
            /\ output.ok
            /\ output.buffer = b
            /\ output.ext = "png"

\* A buffer whose encoding is padded and uses "+" or "/" was resolved back.
C12_Witness ==
    /\ pc = "resolved"
    /\ \E b \in Buffers :
        /\ Len(b) % 3 # 0
        /\ \E k \in 1..Len(b) : b[k] > 250
        /\ input.image.url = EncodedPngUrl(b)
        /\ output.buffer = b

\* The characters of a file name that separate path segments.
PathSeparators == {"/", "\\"}

AllSafe(cs) == \A k \in 1..Len(cs) : SafeChar(cs[k])

\* C13: for every base name the file name is <safe>_<timestamp>_<i+1>.<ext>
\* with <safe> made of characters of [A-Za-z0-9_-] only and at most 64 of
\* them and <timestamp> free of ":" and "."; the file name holds no path
\* separator and the path is the output directory, one separator and the
\* file name.
C13_FileNameIsSafe ==
    pc = "named" =>
        /\ AllSafe(output.safeBase)
        /\ Len(output.safeBase) <= 64
        /\ \A k \in 1..Len(output.timestamp) :
              \A c \in {":", "."} : ~Includes(Chars(output.timestamp[k]), c)
        /\ output.filename =
              output.safeBase \o <<"_">> \o output.timestamp
                  \o <<"_", ToString(input.i + 1), ".", input.ext>>
        /\ \A k \in 1..Len(output.filename) :
              \A c \in PathSeparators : ~Includes(Chars(output.filename[k]), c)
        /\ output.filepath = OutputDir \o <<"/">> \o output.filename

\* A base name with a space, a slash and a unicode quotation mark that is
\* longer than 64 characters was turned into a file name.
C13_Witness ==
    /\ pc = "named"
    /\ Truthy(input.baseFilename)
    /\ \A c \in {" ", "/", "U+201C"} : Includes(input.baseFilename, c)
    /\ Len(Explode(input.baseFilename)) > 64
    /\ Len(output.safeBase) = 64

\* Every character outside [A-Za-z0-9_-] replaced by its own "_".
ReplaceEach(cs) == [k \in 1..Len(cs) |-> IF SafeChar(cs[k]) THEN cs[k] ELSE "_"]

\* C14: the sanitized name is the base name with every character outside
\* [A-Za-z0-9_-] replaced by one "_" of its own and the others unchanged,
\* cut to its first 64 characters; a base name of at most 64 characters
\* keeps its length.
C14_OneUnderscorePerCharacter ==
    (pc = "named" /\ Truthy(input.baseFilename)) =>
        LET cs == Explode(input.baseFilename)
        IN  /\ output.safeBase = Slice(ReplaceEach(cs), 64)
            /\ Len(cs) <= 64 => Len(output.safeBase) = Len(cs)

\* The invocation that wrote the file now at path p.
WriterOf(p) == (CHOOSE f \in fs : f.path = p).from[1]

\* The paths invocation c reported as written.
PathsOf(c) == {calls[c].savedFiles[k] : k \in 1..Len(calls[c].savedFiles)}

\* C15: files written by different invocations never collide: no path is
\* reported by both, and the file at a path an invocation reported is the
\* one that invocation wrote.
C15_NoCollisionBetweenCalls ==
    pc = "calls" =>
        /\ PathsOf(1) \cap PathsOf(2) = {}
        /\ \A c \in CallIds : \A p \in PathsOf(c) : WriterOf(p) = c

\* The inline image is a data URL of an image with a base64 payload.
IsInline(url) == Truthy(url) /\ StartsWith(url, <<"data:", "image">>)

\* The characters of the base64 string of an inline image: what follows the
\* first comma.
EncodedPayload(url) ==
    LET cs == Explode(url) IN SubSeq(cs, IndexOf(cs, ",") + 1, Len(cs))

\* The number of bytes an unpadded base64 string decodes to.
DecodedLength(cs) == (3 * Len(cs)) \div 4

\* C16 as stated: the reported size of an inline base64 image is
\* round(L/1024) for the length L of its encoded base64 string.
C16_SizeFromPayloadLength ==
    (pc = "sized" /\ IsInline(input.url)) =>
        output.size = Round(Len(EncodedPayload(input.url)), 1024)

\* C16 as amended: the reported size of an inline base64 image is
\* round(N/1024) for the length N of the whole data URL, its
\* data:image/<format>;base64, prefix included; it is computed from the
\* text and not from the decoded bytes.
C16_SizeFromUrlLength ==
    (pc = "sized" /\ IsInline(input.url)) =>
        /\ output.type = "base64"
        /\ output.size = Round(Len(Explode(input.url)), 1024)

\* An inline image whose data URL rounds to 1 KB while its base64 string
\* alone and its decoded bytes both round to 0 KB.
C16_Witness ==
    /\ pc = "sized"
    /\ IsInline(input.url)
    /\ output.size = 1
    /\ Round(Len(EncodedPayload(input.url)), 1024) = 0
    /\ Round(DecodedLength(EncodedPayload(input.url)), 1024) = 0

\* The upstream answered with a non-2xx status or with a body that lacks
\* choices[0].message (chat) or the data array (image generation).
UpstreamFailed == data # NoData /\ (~data.ok \/ data.body.kind = "malformed")

\* C17: after a non-2xx or malformed upstream response the call has ended
\* with one failure and no result record, nothing was written or fetched,
\* and the upstream was asked once; no call asks the upstream twice.
C17_UpstreamFailureIsOneError ==
    /\ upstreamRequests <= 1
    /\ UpstreamFailed =>
          /\ pc = "done"
          /\ outcome.kind = "error"
          /\ outcome.result = NoResult
          /\ fs = {}
          /\ ~dirExists
          /\ savedFiles = <<>>
          /\ imageFetches = 0
          /\ upstreamRequests = 1

\* The image-generation branch was asked to save and got a body without a
\* data array.
C17_Witness ==
    /\ pc = "done"
    /\ Branch(server, args) = "dalle"
    /\ args.save_to_file
    /\ data.ok
    /\ data.body.kind = "malformed"
    /\ outcome.kind = "error"

\* The reference is a url that starts with "data:".
IsDataUrl(in) == Truthy(in.image.url) /\ StartsWith(in.image.url, <<"data:">>)

\* C18: a reference whose url starts with "data:" is never fetched and is
\* decoded locally as a data URL; a GET is issued only for a url that does
\* not start with "data:", never for a base64 or raw-bytes reference.
C18_DataUrlNeverFetched ==
    pc = "resolved" =>
        /\ IsDataUrl(input) =>
              /\ ~output.fetched
              /\ output.ok = parseDataUrl(input.image.url).ok
              /\ output.ok => output.buffer = parseDataUrl(input.image.url).buffer
        /\ output.fetched => (Truthy(input.image.url) /\ ~IsDataUrl(input))
        /\ ~Truthy(input.image.url) => ~output.fetched

\* A base64 data URL was resolved to its bytes without a GET.
C18_Witness ==
    /\ pc = "resolved"
    /\ IsDataUrl(input)
    /\ output.ok
    /\ output.buffer = <<65>>
    /\ ~output.fetched

\* A chat call that was asked to save, found an image reference, and whose
\* only loop iteration failed to resolve or to write the image.
ChatSaveFailed ==
    /\ pc = "done"
    /\ Branch(server, args) = "chat"
    /\ args.save_to_file
    /\ Truthy(imageUrl)
    /\ \E k \in 1..Len(log) : log[k].line = "Failed to save image"

\* C19: in the chat shape a failure to resolve or write the image does not
\* fail the request: the call returns success with the image descriptor and
\* without a saved file (null in the multi-model revision, absent in the
\* Gemini-only one).
C19_ChatSaveFailureIsSuccess ==
    ChatSaveFailed =>
        /\ outcome.kind = "result"
        /\ outcome.result.success
        /\ fs = {}
        /\ IF server = "multi"
           THEN /\ outcome.result.image_url = imageUrl
                /\ outcome.result.saved_file = None
           ELSE /\ outcome.result.image = GeminiImage(imageUrl, args.show_full_response)
                /\ outcome.result.image.type # "none"
                /\ outcome.result.saved_to = None

\* The image of a chat reply resolved but could not be written, and the
\* call returned.
C19_Witness ==
    /\ ChatSaveFailed
    /\ outcome.kind = "result"
    /\ resolveImageBufferAndExt(images[1], NoNet).ok

\* The upstream answered and the reply holds no image reference: the chat
\* extractor found none, or no element of the data array has a url or a
\* b64_json.
NoReferenceFound ==
    /\ data.ok
    /\ IF Branch(server, args) = "chat"
       THEN data.body.kind = "chat" /\ ~Truthy(imageUrl)
       ELSE /\ data.body.has_data
            /\ \A k \in 1..Len(data.body.list) : DalleInput(data.body.list[k]) = EmptyInput

\* C20: a generate_image call with save_to_file false, or whose reply holds
\* no image reference, creates no directory, writes no file and fetches no
\* image URL.
C20_PersistOnlyOnRequest ==
    (args.name = "generate_image" /\ (~args.save_to_file \/ NoReferenceFound)) =>
        /\ ~dirExists
        /\ fs = {}
        /\ imageFetches = 0

\* The paths a result record reports: saved_file, saved_to and the
\* saved_file of every descriptor.
ReportedPaths(r) ==
    ({r.saved_file, r.saved_to} \cup {r.images[k].saved_file : k \in 1..Len(r.images)})
        \ {None}

\* The paths whose write completed, by the lines saveImages logged.
WrittenPaths == {log[k].path : k \in {j \in 1..Len(log) : log[j].line = "Saved image to"}}

\* C21: every path a result reports names a file that was written during
\* the call, before it returned; no path is reported for a write that
\* failed or was not attempted; and a file is written only after the output
\* directory was made.
C21_ReportedPathsWereWritten ==
    /\ fs # {} => dirExists
    /\ \A k \in 1..Len(savedFiles) :
          /\ savedFiles[k] \in WrittenPaths
          /\ \E f \in fs : f.path = savedFiles[k]
    /\ (pc = "done" /\ outcome.kind = "result") =>
          \A p \in ReportedPaths(outcome.result) :
              /\ p \in WrittenPaths
              /\ \E f \in fs : f.path = p
    /\ (pc = "done" /\ outcome.kind = "error") => ReportedPaths(outcome.result) = {}

\* An image-generation call returned a path although the write of another
\* element had failed.
C21_Witness ==
    /\ pc = "done"
    /\ outcome.kind = "result"
    /\ Branch(server, args) = "dalle"
    /\ ReportedPaths(outcome.result) # {}
    /\ \E k \in 1..Len(log) : log[k].line = "Failed to save image"

\* The positions of the log lines of completed writes.
SavedLines == {k \in 1..Len(log) : log[k].line = "Saved image to"}

\* The index a file name carries: the text between its last "_" and the
\* "." before the extension.
IndexInName(p) == p[Len(p) - 2]

\* C22: within one call of saveImages the files written for different
\* indices have pairwise distinct paths, whatever their timestamps: each is
\* still on disk under its own path, and its name carries the 1-based
\* position of its reference in the input.
C22_DistinctPathsPerIndex ==
    /\ \A k, l \in SavedLines : k < l => Explode(log[k].path) # Explode(log[l].path)
    /\ \A k \in SavedLines :
          /\ IndexInName(log[k].path) = ToString(log[k].index)
          /\ \E f \in fs : f.path = log[k].path /\ f.from = log[k].index - 1
    /\ Cardinality(fs) = Cardinality(SavedLines)

\* Two files were written at the same instant after the first reference
\* had failed: they are named by positions 2 and 3.
C22_Witness ==
    /\ AtReturn
    /\ Len(images) = 3
    /\ clock = 0
    /\ Len(savedFiles) = 2
    /\ IndexInName(savedFiles[1]) = "2"
    /\ IndexInName(savedFiles[2]) = "3"

\* A tool call was made.
Called == args # NoArgs

KeyTooShort == ~Truthy(apiKey) \/ Len(Explode(apiKey)) < 20

\* The messages of the two key errors.
KeyErrors ==
    <<"OPENROUTER_API_KEY environment variable is not set",
      "OPENROUTER_API_KEY appears to be invalid (too short)">>

HasWarning == \E k \in 1..Len(log) : log[k].line = "Warning: key prefix"

\* The call touched neither the upstream nor the disk.
NothingDone ==
    /\ upstreamRequests = 0
    /\ imageFetches = 0
    /\ fs = {}
    /\ ~dirExists

\* C23: with the key unset or shorter than 20 characters every tool call,
\* list_models included, ends in a key error before any upstream request
\* or write; a key of 20 characters or more without the sk-or- prefix logs
\* a warning and the call goes on as with the prefix; a call that names an
\* unknown tool ends in the unknown-tool error without an upstream request.
C23_KeyAndToolChecks ==
    Called =>
        IF KeyTooShort
        THEN /\ pc = "done"
             /\ outcome.kind = "error"
             /\ outcome.error = IF Truthy(apiKey) THEN KeyErrors[2] ELSE KeyErrors[1]
             /\ NothingDone
             /\ ~HasWarning
        ELSE /\ HasWarning <=> ~StartsWith(apiKey, <<"sk-or-">>)
             /\ outcome.kind = "error" =>
                   outcome.error \notin {KeyErrors[1], KeyErrors[2]}
             /\ (pc = "done" /\ args.name = "list_models") => outcome.kind = "result"
             /\ (args.name \in {"generate_image", "analyze_image"}
                   /\ args.name \in ToolNames(server) /\ upstreamRequests = 0)
                   => (pc = "done" /\ outcome.kind = "error")
             /\ args.name \notin ToolNames(server) =>
                   /\ pc = "done"
                   /\ outcome.kind = "error"
                   /\ outcome.error = "Unknown tool"
                   /\ NothingDone

\* A call with a key of 20 characters without the prefix logged the warning
\* and went on to ask the upstream.
C23_Witness ==
    /\ Called
    /\ Len(Explode(apiKey)) = 20
    /\ ~StartsWith(apiKey, <<"sk-or-">>)
    /\ HasWarning
    /\ upstreamRequests = 1

====
